---- MODULE Spec2Model ----
(***************************************************************************)
(* A model of os5/src/syscall/process.rs: the process-management syscalls  *)
(* of the kernel (exit, yield, getpid, fork, exec, waitpid, spawn,         *)
(* set_priority, mmap, munmap).                                            *)
(*                                                                         *)
(* The handlers are translated from process.rs.  What they call in         *)
(* crate::task, crate::mm and crate::loader is not part of that file; it   *)
(* is modelled from the design document and kept in separate definitions.  *)
(***************************************************************************)
EXTENDS Integers, Sequences, FiniteSets, TLC

(***************************************************************************)
(* Bounds of the model.                                                    *)
(***************************************************************************)
\* Largest pid: the task table holds pids 0..MaxPid.
MaxPid == 3

Pids == 0 .. MaxPid

\* The pids the allocator hands out when every syscall is in play.
SmallPids == 0 .. MaxPid - 1

\* pid of the initial process, the root of the task tree and the guardian
\* that adopts the children of an exited task.
INITPROC == 0

\* Exit codes passed to sys_exit.
ExitCodes == {0, 1}

\* pid arguments of sys_waitpid: -1 (any child), every pid, and -2 (a
\* negative pid that is not -1).
WaitArgs == {-2, -1} \cup Pids

\* Program names known to the loader, and the paths handed to exec/spawn.
KnownApps == {"initproc", "app"}
Paths == KnownApps \cup {"nosuch"}

\* Priority arguments of sys_set_priority.
PrioArgs == {1, 2}

\* Width of usize in the model: addresses and lengths are below 2^WordBits.
WordBits == 16

\* The clock: it advances TickUs microseconds at a time, MaxTicks times.
TickUs == 700
MaxTicks == 2

VARIABLES
    alive,        \* set of pids whose task control block exists
    task_status,  \* [pid -> "Ready" | "Running" | "Zombie" | "None"]
    exit_code,    \* [pid -> i32]
    children,     \* [pid -> sequence of child pids], in the order they joined
    parent,       \* [pid -> pid of the parent, -1 for none]
    priority,     \* [pid -> priority]
    memory_set,   \* [pid -> set of <<vpn, permissions>>]
    trap_cx,      \* [pid -> [x10, entry]] the saved resume context
    user_mem,     \* [pid -> i32] the cell an exit_code_ptr of the task names
    ready_queue,  \* the scheduler's ready queue, a sequence of pids
    current,      \* the processor's current task
    panicked,     \* the kernel has panicked
    last,         \* the syscall made by the latest step
    now,          \* the microsecond clock (timer::get_time_us)
    addtion_time, \* [pid -> addtion_info.time]: the start time of a task,
                  \* the elapsed time frozen at exit for a Zombie
    reaped,       \* history: the <<caller, pid>> of the reaps made so far
    overflow_checks, \* the kernel is built with arithmetic overflow checks
    trip,         \* history: how far an mmap/munmap/munmap round trip got
    pc,           \* where the user program of INITPROC stands when it is
                  \* the parent that waits for a child (see WaitSpec)
    scopes        \* history: the exclusive-access scopes the latest handler
                  \* acquired and released, in order (see ScopeSpec)

vars == <<alive, task_status, exit_code, children, parent, priority,
          memory_set, trap_cx, user_mem, ready_queue, current, panicked,
          last, now, addtion_time, reaped, overflow_checks, trip, pc,
          scopes>>

tcb_vars == <<alive, task_status, exit_code, children, parent, priority,
              memory_set, ready_queue, current, addtion_time>>

(***************************************************************************)
(* Records of the syscalls made.                                           *)
(***************************************************************************)
\* What a handler wrote through a pointer to a TimeVal (sec, usec) or to a
\* TaskInfo (status, time); nothing yet.
NoOut == [sec |-> 0, usec |-> 0, status |-> "", time |-> 0]

\* op, caller, arguments a0..a2 / path and return value ret; follows says how
\* a waitpid relates to the call just before it (see WaitCall); out is the
\* structure the handler wrote to user memory.
Call(op, caller, a0, a1, a2, path, ret) ==
    [op |-> op, caller |-> caller, a0 |-> a0, a1 |-> a1, a2 |-> a2,
     path |-> path, ret |-> ret, follows |-> "none", out |-> NoOut]

NoCall == Call("none", -1, 0, 0, 0, "", 0)

(***************************************************************************)
(* Collaborators of process.rs (crate::loader, crate::task), modelled from *)
(* the design document.                                                    *)
(***************************************************************************)
\* The priority a new task control block starts with.
DEFAULT_PRIORITY == 16

\* loader::get_app_data_by_name: Some(data) for a known program.
get_app_data_by_name(path) == path \in KnownApps

\* The address space built from a program image: text at page 0, and for
\* "app" a data page too.
Image(app) ==
    IF app = "app"
    THEN {<<0, {"U", "R", "X"}>>, <<1, {"U", "R", "W"}>>}
    ELSE {<<0, {"U", "R", "X"}>>}

\* The resume context of a fresh program image.
InitTrapCx(app) == [x10 |-> 0, entry |-> app]

\* Vec::remove(idx)
RemoveAt(s, i) == SubSeq(s, 1, i - 1) \o SubSeq(s, i + 1, Len(s))

\* Number of places of sequence s that hold x.
Occurrences(s, x) == Cardinality({i \in 1 .. Len(s) : s[i] = x})

\* manager::add_task: the task goes to the back of the ready queue.
add_task(q, t) == Append(q, t)

\* Arc::strong_count of task t given the children lists ch, the ready queue
\* q and the processor's current task cur: one per children-list entry, per
\* ready-queue entry and for the processor's current slot, plus the static
\* INITPROC handle.
strong_count_in(ch, q, cur, t) ==
    LET inLists == {p \in Pids : Occurrences(ch[p], t) > 0}
        perList == [p \in Pids |-> Occurrences(ch[p], t)]
        Sum[S \in SUBSET Pids] ==
            IF S = {} THEN 0
            ELSE LET p == CHOOSE x \in S : TRUE IN perList[p] + Sum[S \ {p}]
    IN Sum[inLists] + Occurrences(q, t)
       + (IF cur = t THEN 1 ELSE 0) + (IF t = INITPROC THEN 1 ELSE 0)

strong_count(t) == strong_count_in(children, ready_queue, current, t)

\* TaskControlBlockInner::is_zombie
is_zombie(t) == task_status[t] = "Zombie"

\* The state of a pid with no task control block.
NoTaskCx == [x10 |-> 0, entry |-> ""]

(***************************************************************************)
(* The initial state: INITPROC runs, nothing else exists.                  *)
(***************************************************************************)
NoTrip == [phase |-> 0, ms0 |-> {}]

\* The waiting parent before it has done anything: at is the next thing the
\* program does, child the pid it waits for, got what waitpid gave it at
\* last, retried whether a waitpid told it to try again.
ProgramStart == [at |-> "fork", child |-> -1, got |-> -1, retried |-> FALSE]

InitTasks ==
    /\ alive = {INITPROC}
    /\ task_status = [p \in Pids |-> IF p = INITPROC THEN "Running" ELSE "None"]
    /\ exit_code = [p \in Pids |-> 0]
    /\ children = [p \in Pids |-> <<>>]
    /\ parent = [p \in Pids |-> -1]
    /\ priority = [p \in Pids |-> IF p = INITPROC THEN DEFAULT_PRIORITY ELSE 0]
    /\ memory_set = [p \in Pids |-> IF p = INITPROC THEN Image("initproc") ELSE {}]
    /\ trap_cx = [p \in Pids |-> IF p = INITPROC THEN InitTrapCx("initproc") ELSE NoTaskCx]
    /\ user_mem = [p \in Pids |-> 0]
    /\ ready_queue = <<>>
    /\ current = INITPROC
    /\ panicked = FALSE
    /\ last = NoCall
    /\ now = 0
    /\ addtion_time = [p \in Pids |-> 0]
    /\ reaped = {}
    /\ trip = NoTrip
    /\ pc = ProgramStart
    /\ scopes = <<>>

\* The process syscalls do no arithmetic that can overflow: the build
\* setting is left at its release default there.
Init == InitTasks /\ overflow_checks = FALSE

\* What every syscall step records.
Record(call) == last' = call

(***************************************************************************)
(* sys_exit and sys_yield.                                                 *)
(***************************************************************************)
\* task::exit_current_and_run_next: the current task becomes a Zombie with
\* the exit code and its elapsed time frozen, its children go to INITPROC,
\* and the scheduler resumes a task of the ready queue.  The exiting task
\* is not enqueued again.
exit_current_and_run_next(code) ==
    \E i \in 1 .. Len(ready_queue) :
        LET next == ready_queue[i]
            orphans == children[current]
        IN /\ task_status' = [task_status EXCEPT ![current] = "Zombie",
                                                 ![next] = "Running"]
           /\ exit_code' = [exit_code EXCEPT ![current] = code]
           /\ children' = [children EXCEPT ![INITPROC] = @ \o orphans,
                                           ![current] = <<>>]
           /\ parent' = [p \in Pids |->
                            IF Occurrences(orphans, p) > 0 THEN INITPROC
                            ELSE parent[p]]
           /\ ready_queue' = RemoveAt(ready_queue, i)
           /\ current' = next
           /\ addtion_time' = [addtion_time EXCEPT ![current] = now - @]

\* task::suspend_current_and_run_next: the current task goes back to the
\* ready queue as Ready and the scheduler resumes a task of the queue.
suspend_current_and_run_next ==
    LET q == add_task(ready_queue, current)
    IN \E i \in 1 .. Len(q) :
        LET next == q[i]
        IN /\ task_status' = [[task_status EXCEPT ![current] = "Ready"]
                                 EXCEPT ![next] = "Running"]
           /\ ready_queue' = RemoveAt(q, i)
           /\ current' = next

\* (mutant) the handler suspends the task instead of ending it.
sys_exit_Suspends(code) ==
    /\ ~panicked
    /\ current # INITPROC
    /\ suspend_current_and_run_next
    /\ Record(Call("exit", current, code, 0, 0, "", 0))
    /\ UNCHANGED <<alive, exit_code, children, parent, priority, memory_set,
                   trap_cx, user_mem, panicked, addtion_time>>

\* INITPROC never exits: it is the guardian the orphans are handed to.
\* The panic after exit_current_and_run_next is reached only if the
\* scheduler resumes the exited task, that is, makes a Zombie current.
sys_exit(code) ==
    /\ ~panicked
    /\ current # INITPROC
    /\ exit_current_and_run_next(code)
    /\ Record(Call("exit", current, code, 0, 0, "", 0))
    /\ UNCHANGED <<alive, priority, memory_set, trap_cx, user_mem, panicked>>

sys_yield ==
    /\ ~panicked
    /\ suspend_current_and_run_next
    /\ Record(Call("yield", current, 0, 0, 0, "", 0))
    /\ UNCHANGED <<alive, exit_code, children, parent, priority, memory_set,
                   trap_cx, user_mem, panicked, addtion_time>>

sys_getpid ==
    /\ ~panicked
    /\ Record(Call("getpid", current, 0, 0, 0, "", current))
    /\ UNCHANGED <<tcb_vars, trap_cx, user_mem, panicked>>

(***************************************************************************)
(* sys_fork.                                                               *)
(***************************************************************************)
\* Contents of register a0 of the caller when it traps into fork, which
\* takes no argument: whatever the user program left there.
UserRegs == {0, 5}

\* (mutant) the copy is left as it is.
fork_trap_cx_Stale(cx) == cx

\* The trap context of the new task: the copy of the caller's, with the
\* return-value register forced to 0.
fork_trap_cx(cx) == [cx EXCEPT !.x10 = 0]

\* fork hands the new task to the scheduler.
fork_add_task(q, new_task) == add_task(q, new_task)

\* fork returns the pid of the new task.
fork_return(new_pid) == new_pid

\* TaskControlBlock::fork and ::spawn: a new task control block with a pid
\* no existing block has, Ready, child of the caller and last in the
\* caller's children.
NewTask(new_pid, ms, cx, mem) ==
    /\ alive' = alive \cup {new_pid}
    /\ task_status' = [task_status EXCEPT ![new_pid] = "Ready"]
    /\ exit_code' = [exit_code EXCEPT ![new_pid] = 0]
    /\ children' = [children EXCEPT ![current] = Append(@, new_pid),
                                    ![new_pid] = <<>>]
    /\ parent' = [parent EXCEPT ![new_pid] = current]
    /\ priority' = [priority EXCEPT ![new_pid] = DEFAULT_PRIORITY]
    /\ memory_set' = [memory_set EXCEPT ![new_pid] = ms]
    /\ trap_cx' = [trap_cx EXCEPT ![new_pid] = cx]
    /\ user_mem' = [user_mem EXCEPT ![new_pid] = mem]
    /\ addtion_time' = [addtion_time EXCEPT ![new_pid] = now]

\* pool: the pids the allocator may hand out.
sys_fork(pool) ==
    /\ ~panicked
    /\ \E new_pid \in pool \ alive, a0 \in UserRegs :
        /\ NewTask(new_pid, memory_set[current],
                   fork_trap_cx([trap_cx[current] EXCEPT !.x10 = a0]),
                   user_mem[current])
        /\ ready_queue' = fork_add_task(ready_queue, new_pid)
        /\ Record(Call("fork", current, a0, 0, 0, "", fork_return(new_pid)))
    /\ UNCHANGED <<current, panicked>>

(***************************************************************************)
(* sys_exec and sys_spawn.                                                 *)
(***************************************************************************)
\* (mutant) exec reports success whatever the lookup says.
exec_return_AlwaysZero(found) == 0

\* The result of exec: 0 when the program is found, -1 otherwise.
exec_return(found) == IF found THEN 0 ELSE -1

sys_exec(path) ==
    /\ ~panicked
    /\ IF get_app_data_by_name(path)
       THEN \* TaskControlBlock::exec: address space and resume context are
            \* replaced in place
            /\ memory_set' = [memory_set EXCEPT ![current] = Image(path)]
            /\ trap_cx' = [trap_cx EXCEPT ![current] = InitTrapCx(path)]
            /\ user_mem' = [user_mem EXCEPT ![current] = 0]
       ELSE UNCHANGED <<memory_set, trap_cx, user_mem>>
    /\ Record(Call("exec", current, 0, 0, 0, path,
                   exec_return(get_app_data_by_name(path))))
    /\ UNCHANGED <<alive, task_status, exit_code, children, parent, priority,
                   ready_queue, current, panicked, addtion_time>>

\* (mutant) the new task is never enqueued.
spawn_add_task_Forgotten(q, new_task) == q

\* spawn hands the new task to the scheduler.
spawn_add_task(q, new_task) == add_task(q, new_task)

\* spawn looks the program up before it creates anything.
spawn_found(path) == get_app_data_by_name(path)

sys_spawn(pool, path) ==
    /\ ~panicked
    /\ IF spawn_found(path)
       THEN \E new_pid \in pool \ alive :
                /\ NewTask(new_pid, Image(path), InitTrapCx(path), 0)
                /\ ready_queue' = spawn_add_task(ready_queue, new_pid)
                /\ Record(Call("spawn", current, 0, 0, 0, path, new_pid))
       ELSE /\ Record(Call("spawn", current, 0, 0, 0, path, -1))
            /\ UNCHANGED <<alive, task_status, exit_code, children, parent,
                           priority, memory_set, trap_cx, user_mem,
                           ready_queue, addtion_time>>
    /\ UNCHANGED <<current, panicked>>

(***************************************************************************)
(* sys_waitpid.                                                            *)
(***************************************************************************)
\* (mutant) pid == -1 is not treated as "any child".
MatchesPid_ExactOnly(pid, p) == pid = p

\* The test both searches apply to a child p: pid == -1 || pid as usize ==
\* p.getpid().  A negative pid other than -1 is a huge usize no task has.
MatchesPid(pid, p) == pid = -1 \/ (pid >= 0 /\ pid = p)

\* The first search: some child matches pid.
HasMatchingChild(t, pid) ==
    \E i \in 1 .. Len(children[t]) : MatchesPid(pid, children[t][i])

\* (mutant) the second search forgets the pid.
IsZombieMatch_AnyPid(pid, p) == is_zombie(p)

\* (mutant) the second search forgets the Zombie test.
IsZombieMatch_AnyStatus(pid, p) == MatchesPid(pid, p)

\* The test of the second search.
IsZombieMatch(pid, p) == is_zombie(p) /\ MatchesPid(pid, p)

\* (mutant) the search looks at the first child only.
FindZombie_FirstOnly(t, pid) ==
    IF children[t] # <<>> /\ IsZombieMatch(pid, children[t][1]) THEN 1 ELSE 0

\* (mutant) the search keeps the last hit instead of the first.
FindZombie_Last(t, pid) ==
    LET hits == {i \in 1 .. Len(children[t]) : IsZombieMatch(pid, children[t][i])}
    IN IF hits = {} THEN 0
       ELSE CHOOSE i \in hits : \A j \in hits : i >= j

\* The second search: the index (from 1) of the first child that is a
\* Zombie and matches pid; 0 for None.
FindZombie(t, pid) ==
    LET hits == {i \in 1 .. Len(children[t]) : IsZombieMatch(pid, children[t][i])}
    IN IF hits = {} THEN 0
       ELSE CHOOSE i \in hits : \A j \in hits : i <= j

\* (mutant) the exit code is not the child's.
waitpid_exit_code_Zero(child) == 0

\* The value written through exit_code_ptr.
waitpid_exit_code(child) == exit_code[child]

\* (mutant) the child found stays in the list.
waitpid_remove_Kept(s, idx) == s

\* inner.children.remove(idx)
waitpid_remove(s, idx) == RemoveAt(s, idx)

\* Dropping the last handle of a task frees its task control block and
\* its pid.
FreeTask(child) ==
    /\ alive' = alive \ {child}
    /\ task_status' = [task_status EXCEPT ![child] = "None"]
    /\ exit_code' = [exit_code EXCEPT ![child] = 0]
    /\ parent' = [parent EXCEPT ![child] = -1]
    /\ priority' = [priority EXCEPT ![child] = 0]
    /\ memory_set' = [memory_set EXCEPT ![child] = {}]
    /\ trap_cx' = [trap_cx EXCEPT ![child] = NoTaskCx]
    /\ addtion_time' = [addtion_time EXCEPT ![child] = 0]

\* The record of waitpid(pid) returning ret.  follows is "retry" when the
\* call just before was the same call by the same task and returned -2, and
\* "reaped" when the call just before was a waitpid by the same task that
\* returned pid, the pid asked for now.
WaitCall(pid, ret) ==
    [Call("waitpid", current, pid, 0, 0, "", ret) EXCEPT !.follows =
        IF last.op = "waitpid" /\ last.caller = current
        THEN IF last.ret = -2 /\ last.a0 = pid THEN "retry"
             ELSE IF last.ret >= 0 /\ last.ret = pid THEN "reaped"
             ELSE "none"
        ELSE "none"]

sys_waitpid(pid) ==
    /\ ~panicked
    /\ IF ~HasMatchingChild(current, pid)
       THEN /\ Record(WaitCall(pid, -1))
            /\ UNCHANGED <<tcb_vars, trap_cx, user_mem, panicked>>
       ELSE LET idx == FindZombie(current, pid)
            IN IF idx # 0
               THEN LET child == children[current][idx]
                        rest == [children EXCEPT ![current] = waitpid_remove(@, idx)]
                    IN /\ children' = rest
                       /\ IF strong_count_in(rest, ready_queue, current, child) + 1 = 1
                          THEN /\ FreeTask(child)
                               /\ user_mem' = [user_mem EXCEPT
                                      ![child] = 0,
                                      ![current] = waitpid_exit_code(child)]
                               /\ Record(WaitCall(pid, child))
                               /\ UNCHANGED <<ready_queue, current, panicked>>
                          ELSE \* assert_eq!(Arc::strong_count(&child), 1) fails
                               /\ panicked' = TRUE
                               /\ Record(Call("waitpid_panic", current, pid, 0, 0, "", 0))
                               /\ UNCHANGED <<alive, task_status, exit_code,
                                              parent, priority, memory_set,
                                              trap_cx, user_mem, ready_queue,
                                              current, addtion_time>>
               ELSE /\ Record(WaitCall(pid, -2))
                    /\ UNCHANGED <<tcb_vars, trap_cx, user_mem, panicked>>

(***************************************************************************)
(* sys_set_priority.                                                       *)
(***************************************************************************)
\* (mutant) the bound of the test is off by one.
prio_rejected_BelowOne(prio) == prio < 1

\* The test of the handler: prio < 2.
prio_rejected(prio) == prio < 2

\* (mutant) an accepted call reports 0, as the other setters do.
set_priority_return_Zero(prio) == 0

\* An accepted call returns the priority it stored.
set_priority_return(prio) == prio

\* TaskPriority::set_prio on the task t.
set_prio(t, prio) == [priority EXCEPT ![t] = prio]

sys_set_priority(prio) ==
    /\ ~panicked
    /\ IF prio_rejected(prio)
       THEN /\ Record(Call("set_priority", current, prio, 0, 0, "", -1))
            /\ UNCHANGED priority
       ELSE /\ priority' = set_prio(current, prio)
            /\ Record(Call("set_priority", current, prio, 0, 0, "",
                           set_priority_return(prio)))
    /\ UNCHANGED <<alive, task_status, exit_code, children, parent,
                   memory_set, trap_cx, user_mem, ready_queue, current,
                   panicked, addtion_time>>

(***************************************************************************)
(* sys_get_time and sys_task_info.                                         *)
(***************************************************************************)
\* (mutant) the microseconds are not reduced to the sub-second part.
get_time_usec_Whole(us) == us

\* TimeVal of the clock sample us: sec and usec.
get_time_sec(us) == us \div 1000000
get_time_usec(us) == us % 1000000

\* follows is "again" when the call just before was a get_time as well,
\* "carry" when in addition that call wrote more microseconds than this one.
sys_get_time ==
    /\ ~panicked
    /\ LET us == now
       IN Record([Call("get_time", current, 0, 0, 0, "", 0) EXCEPT
                     !.out = [NoOut EXCEPT !.sec = get_time_sec(us),
                                           !.usec = get_time_usec(us)],
                     !.follows =
                         IF last.op # "get_time" THEN "none"
                         ELSE IF last.out.usec > get_time_usec(us) THEN "carry"
                         ELSE "again"])
    /\ UNCHANGED <<tcb_vars, trap_cx, user_mem, panicked>>

\* (mutant) the elapsed time is computed the same way for every status.
task_info_time_NoZombieArm(t) == (now - addtion_time[t]) \div 1000

\* The time TaskInfo holds for task t, in milliseconds: the stored time for
\* a Zombie, the clock minus the stored time otherwise.  (The subtraction
\* is in usize; the stored start time is never above the clock.)
task_info_time(t) ==
    LET time == IF task_status[t] = "Zombie" THEN addtion_time[t]
                ELSE now - addtion_time[t]
    IN time \div 1000

sys_task_info ==
    /\ ~panicked
    /\ Record([Call("task_info", current, 0, 0, 0, "", 0) EXCEPT
                  !.out = [NoOut EXCEPT !.status = task_status[current],
                                        !.time = task_info_time(current)]])
    /\ UNCHANGED <<tcb_vars, trap_cx, user_mem, panicked>>

(***************************************************************************)
(* sys_mmap and sys_munmap.                                                *)
(***************************************************************************)
PAGE_SIZE == 4096

\* usize values are 0 .. Word - 1.
Word == 2 ^ WordBits

\* usize arithmetic: the wrapped value, and whether the exact one left the
\* range (a panic when the build checks overflow, a silent wrap otherwise).
USub(a, b) == [val |-> (a - b) % Word, ovf |-> a < b]
UAdd(a, b) == [val |-> (a + b) % Word, ovf |-> a + b >= Word]
UMul(a, b) == [val |-> (a * b) % Word, ovf |-> a * b >= Word]

\* (port & !0x7) != 0 || (port & 0x7) == 0
port_rejected(port) == (port \div 8) # 0 \/ (port % 8) = 0

\* ((len - 1) / 4096 + 1) * 4096
round_len(len) ==
    LET d == USub(len, 1)
        q == UAdd(d.val \div PAGE_SIZE, 1)
        m == UMul(q.val, PAGE_SIZE)
    IN [val |-> m.val, ovf |-> d.ovf \/ q.ovf \/ m.ovf]

\* VirtAddr::page_offset
page_offset(va) == va % PAGE_SIZE

\* The misalignment test of both handlers.
misaligned(start) == page_offset(start) # 0

\* start + len - 1
end_va(start, len) ==
    LET a == UAdd(start, len)
        b == USub(a.val, 1)
    IN [val |-> b.val, ovf |-> a.ovf \/ b.ovf]

\* The permissions of a port: U always, R, W, X from bits 0, 1, 2.
map_perm(port) ==
    {"U"} \cup (IF port % 2 = 1 THEN {"R"} ELSE {})
          \cup (IF (port \div 2) % 2 = 1 THEN {"W"} ELSE {})
          \cup (IF (port \div 4) % 2 = 1 THEN {"X"} ELSE {})

\* The virtual pages of the bytes start_va .. end_va (none when end_va is
\* below start_va).
PagesOf(start_va, end) == (start_va \div PAGE_SIZE) .. (end \div PAGE_SIZE)

MappedPages(ms) == {m[1] : m \in ms}

\* mm::memeory_map: Err when a page of the range is mapped already,
\* otherwise every page of the range is mapped with the permissions.
memeory_map_ok(ms, start_va, end) == PagesOf(start_va, end) \cap MappedPages(ms) = {}
memeory_map(ms, start_va, end, perm) ==
    ms \cup {<<vpn, perm>> : vpn \in PagesOf(start_va, end)}

\* mm::memeory_unmap: Err unless every page of the range is mapped,
\* otherwise every page of the range is unmapped.
memeory_unmap_ok(ms, start_va, end) == PagesOf(start_va, end) \subseteq MappedPages(ms)
memeory_unmap(ms, start_va, end) == {m \in ms : m[1] \notin PagesOf(start_va, end)}

\* A handler panics: the kernel stops.
Panic(call) ==
    /\ panicked' = TRUE
    /\ Record(call)
    /\ UNCHANGED <<tcb_vars, trap_cx, user_mem>>

\* A handler returns ret with the caller's address space now ms.
Return(call, ms) ==
    /\ memory_set' = [memory_set EXCEPT ![current] = ms]
    /\ Record(call)
    /\ UNCHANGED <<alive, task_status, exit_code, children, parent, priority,
                   ready_queue, current, addtion_time, trap_cx, user_mem,
                   panicked>>

sys_mmap(start, len, port) ==
    LET ms == memory_set[current]
        rl == round_len(len)
        ev == end_va(start, rl.val)
        ret(r) == Call("mmap", current, start, len, port, "", r)
        panic == Call("mmap_panic", current, start, len, port, "", 0)
    IN /\ ~panicked
       /\ IF port_rejected(port) THEN Return(ret(-1), ms)
          ELSE IF rl.ovf /\ overflow_checks THEN Panic(panic)
          ELSE IF misaligned(start) THEN Return(ret(-1), ms)
          ELSE IF ev.ovf /\ overflow_checks THEN Panic(panic)
          ELSE IF ~memeory_map_ok(ms, start, ev.val) THEN Return(ret(-1), ms)
          ELSE Return(ret(0), memeory_map(ms, start, ev.val, map_perm(port)))

sys_munmap(start, len) ==
    LET ms == memory_set[current]
        rl == round_len(len)
        ev == end_va(start, rl.val)
        ret(r) == Call("munmap", current, start, len, 0, "", r)
        panic == Call("munmap_panic", current, start, len, 0, "", 0)
    IN /\ ~panicked
       /\ IF rl.ovf /\ overflow_checks THEN Panic(panic)
          ELSE IF misaligned(start) THEN Return(ret(-1), ms)
          ELSE IF ev.ovf /\ overflow_checks THEN Panic(panic)
          ELSE IF ~memeory_unmap_ok(ms, start, ev.val) THEN Return(ret(-1), ms)
          ELSE Return(ret(0), memeory_unmap(ms, start, ev.val))

(***************************************************************************)
(* The clock, and the history of reaps.                                    *)
(***************************************************************************)
\* The timer advances between two syscalls.
Tick ==
    /\ ~panicked
    /\ now < MaxTicks * TickUs
    /\ now' = now + TickUs
    /\ UNCHANGED <<tcb_vars, trap_cx, user_mem, panicked, last>>

\* The history after a step: a reap adds <<caller, pid>>, and the pairs of
\* a task control block that was freed are forgotten with it.
ReapedAfter ==
    IF last'.op = "waitpid" /\ last'.ret >= 0
    THEN {r \in reaped : r[1] # last'.ret} \cup {<<last'.caller, last'.ret>>}
    ELSE reaped

\* A step that leaves the clock alone and keeps no history.
Plain == UNCHANGED <<now, reaped, overflow_checks, trip, pc, scopes>>

\* A step that leaves the clock alone and keeps the history of reaps.
Kept ==
    /\ reaped' = ReapedAfter
    /\ UNCHANGED <<now, overflow_checks, trip, pc, scopes>>

(***************************************************************************)
(* Spec: every syscall of the process layer, on a task table of SmallPids. *)
(***************************************************************************)
Next ==
    \/ (\E code \in ExitCodes : sys_exit(code)) /\ Plain
    \/ sys_yield /\ Plain
    \/ sys_getpid /\ Plain
    \/ sys_fork(SmallPids) /\ Plain
    \/ (\E path \in Paths : sys_exec(path)) /\ Plain
    \/ (\E path \in Paths : sys_spawn(SmallPids, path)) /\ Plain
    \/ (\E pid \in WaitArgs : sys_waitpid(pid)) /\ Plain
    \/ (\E prio \in PrioArgs : sys_set_priority(prio)) /\ Plain

Spec == Init /\ [][Next]_vars

(***************************************************************************)
(* TreeSpec: the syscalls that shape the task tree (fork, exit, waitpid,   *)
(* yield), on the whole task table.                                        *)
(***************************************************************************)
TreeNext ==
    \/ (\E code \in ExitCodes : sys_exit(code)) /\ Plain
    \/ sys_yield /\ Plain
    \/ sys_fork(Pids) /\ Plain
    \/ (\E pid \in WaitArgs : sys_waitpid(pid)) /\ Plain

TreeSpec == Init /\ [][TreeNext]_vars

(***************************************************************************)
(* ReapSpec: the task-tree syscalls and spawn on SmallPids, with the       *)
(* history of reaps kept.                                                  *)
(***************************************************************************)
ReapNext ==
    \/ (\E code \in ExitCodes : sys_exit(code)) /\ Kept
    \/ sys_yield /\ Kept
    \/ sys_fork(SmallPids) /\ Kept
    \/ (\E path \in Paths : sys_spawn(SmallPids, path)) /\ Kept
    \/ (\E pid \in WaitArgs : sys_waitpid(pid)) /\ Kept

ReapSpec == Init /\ [][ReapNext]_vars

(***************************************************************************)
(* ExecSpec: program loading and scheduling metadata (exec, spawn, fork,   *)
(* set_priority, yield) under a running clock.                             *)
(***************************************************************************)
ExecNext ==
    \/ sys_yield /\ Plain
    \/ sys_fork(SmallPids) /\ Plain
    \/ (\E path \in Paths : sys_exec(path)) /\ Plain
    \/ (\E path \in Paths : sys_spawn(SmallPids, path)) /\ Plain
    \/ (\E prio \in PrioArgs : sys_set_priority(prio)) /\ Plain
    \/ Tick /\ UNCHANGED <<reaped, overflow_checks, trip, pc, scopes>>

ExecSpec == Init /\ [][ExecNext]_vars

(***************************************************************************)
(* TimeSpec: the time queries (get_time, task_info) of tasks that are      *)
(* created, yield and exit while the clock advances, by ticks and across   *)
(* the boundary of a second.                                               *)
(***************************************************************************)
\* The readings of the microsecond clock.
Times == {k * TickUs + j * 999600 : k \in 0 .. MaxTicks, j \in 0 .. 1}

\* The monotonic clock moves on to a later reading.
Elapse ==
    /\ ~panicked
    /\ \E t \in Times : t > now /\ now' = t
    /\ UNCHANGED <<tcb_vars, trap_cx, user_mem, panicked, last>>

Timed == UNCHANGED <<reaped, overflow_checks, trip, pc, scopes>>

TimeNext ==
    \/ (\E code \in ExitCodes : sys_exit(code)) /\ Plain
    \/ sys_yield /\ Plain
    \/ sys_fork(SmallPids) /\ Plain
    \/ sys_get_time /\ Plain
    \/ sys_task_info /\ Plain
    \/ Elapse /\ Timed

TimeSpec == Init /\ [][TimeNext]_vars

(***************************************************************************)
(* PrioSpec: set_priority with rejected and accepted arguments, by several *)
(* tasks (fork, yield) that also replace their program (exec).             *)
(***************************************************************************)
PrioWide == {-1, 1, 2, 3, 10}

PrioNext ==
    \/ sys_yield /\ Plain
    \/ sys_fork(SmallPids) /\ Plain
    \/ (\E path \in KnownApps : sys_exec(path)) /\ Plain
    \/ (\E prio \in PrioWide : sys_set_priority(prio)) /\ Plain

PrioSpec == Init /\ [][PrioNext]_vars

(***************************************************************************)
(* WaitSpec: INITPROC forks three children and waits for the second one    *)
(* as the design document prescribes: waitpid, and after every -2 a yield  *)
(* and the same waitpid again.  The children yield (or are preempted) any  *)
(* number of times and may exit.  The scheduler is fair: the running task  *)
(* goes on with its program, and a task that is ready again and again when *)
(* the scheduler chooses is chosen at some time.                           *)
(***************************************************************************)
Still == UNCHANGED <<now, reaped, overflow_checks, trip, scopes>>

ParentFork ==
    /\ current = INITPROC /\ pc.at = "fork"
    /\ sys_fork(Pids)
    /\ pc' = CASE Len(children[INITPROC]) = 0 -> pc
               [] Len(children[INITPROC]) = 1 -> [pc EXCEPT !.child = last'.ret]
               [] OTHER -> [pc EXCEPT !.at = "wait"]
    /\ Still

ParentWait ==
    /\ current = INITPROC /\ pc.at = "wait"
    /\ sys_waitpid(pc.child)
    /\ pc' = IF last'.op = "waitpid" /\ last'.ret = -2
             THEN [pc EXCEPT !.at = "yield", !.retried = TRUE]
             ELSE [pc EXCEPT !.at = "done", !.got = last'.ret]
    /\ Still

ParentYield ==
    /\ current = INITPROC /\ pc.at \in {"yield", "done"}
    /\ sys_yield
    /\ pc' = IF pc.at = "yield" THEN [pc EXCEPT !.at = "wait"] ELSE pc
    /\ Still

ChildYield == current # INITPROC /\ sys_yield /\ Still /\ UNCHANGED pc

ChildExit ==
    /\ current # INITPROC
    /\ \E code \in ExitCodes : sys_exit(code)
    /\ Still /\ UNCHANGED pc

WaitNext ==
    \/ ParentFork
    \/ ParentWait
    \/ ParentYield
    \/ ChildYield
    \/ ChildExit

\* The scheduler resumes task t.
Resumes(t) == WaitNext /\ current # t /\ current' = t

FairScheduler ==
    /\ WF_vars(ParentFork) /\ WF_vars(ParentWait) /\ WF_vars(ParentYield)
    /\ WF_vars(ChildYield \/ ChildExit)
    /\ \A t \in Pids : SF_vars(Resumes(t))

WaitSpec == Init /\ [][WaitNext]_vars /\ FairScheduler

(***************************************************************************)
(* ScopeSpec: the handlers that take exclusive access to a task control    *)
(* block (inner_exclusive_access), with the scopes of each call recorded.  *)
(* A scope is a RefCell borrow: acquiring the scope of a task whose scope  *)
(* is held panics.  A handler runs to its return or to its suspension      *)
(* point without another handler in between, so the scopes of a call are   *)
(* a sequence of events <<kind, task>>, kind being "acq", "rel", "return"  *)
(* or "suspend".                                                           *)
(***************************************************************************)
Acq(t) == <<"acq", t>>
Rel(t) == <<"rel", t>>

\* A callee outside process.rs that reads or writes the mutable fields of
\* task t: it takes the scope of t and releases it before it returns.
Transient(t) == <<Acq(t), Rel(t)>>

\* task::current_user_token reads the address space of the current task.
current_user_token_scopes(t) == Transient(t)

\* sys_exit and sys_yield hold no scope themselves; the callee releases
\* its scope before it switches to another task.
exit_scopes(t) == Transient(t) \o << <<"suspend", t>> >>
yield_scopes(t) == Transient(t) \o << <<"suspend", t>> >>

\* sys_fork: TaskControlBlock::fork (on the caller), then the scope of the
\* new task for get_trap_cx, released at the end of the statement.
fork_scopes(t, new_task) ==
    Transient(t) \o Transient(new_task) \o << <<"return", t>> >>

\* (mutant) the handler takes the user token from current_user_token().
waitpid_token_scopes_ViaCurrent(t) == current_user_token_scopes(t)

\* sys_waitpid writes the exit code through inner.memory_set.token(), the
\* scope it already holds: no scope is acquired for it.
waitpid_token_scopes(t) == <<>>

\* sys_waitpid: the caller's scope from line 80 to the return; the second
\* search takes and releases the scope of each child it looks at, up to
\* the first hit; the child found is opened once more for its exit code.
waitpid_scopes(t, pid) ==
    LET kids == children[t]
        idx == FindZombie(t, pid)
        seen == IF idx = 0 THEN kids ELSE SubSeq(kids, 1, idx)
        Probes[i \in 0 .. Len(seen)] ==
            IF i = 0 THEN <<>> ELSE Probes[i - 1] \o Transient(seen[i])
    IN <<Acq(t)>>
       \o (IF ~HasMatchingChild(t, pid) THEN <<>>
           ELSE Probes[Len(seen)]
                \o (IF idx = 0 THEN <<>>
                    ELSE Transient(kids[idx]) \o waitpid_token_scopes(t)))
       \o <<Rel(t), <<"return", t>> >>

\* sys_task_info: the caller's scope inside the block of lines 123-135,
\* then current_user_token.
task_info_scopes(t) ==
    Transient(t) \o current_user_token_scopes(t) \o << <<"return", t>> >>

\* sys_set_priority: a rejected call touches no task; an accepted one
\* holds the caller's scope for the store.
set_priority_scopes(t, prio) ==
    (IF prio_rejected(prio) THEN <<>> ELSE Transient(t)) \o << <<"return", t>> >>

\* The scopes of the call the step makes, from the state before it.
ScopesAfter ==
    LET c == last'.caller
    IN CASE last'.op = "exit" -> exit_scopes(c)
         [] last'.op = "yield" -> yield_scopes(c)
         [] last'.op = "fork" -> fork_scopes(c, last'.ret)
         [] last'.op = "waitpid" -> waitpid_scopes(c, last'.a0)
         [] last'.op = "task_info" -> task_info_scopes(c)
         [] last'.op = "set_priority" -> set_priority_scopes(c, last'.a0)
         [] OTHER -> <<>>

Scoped ==
    /\ scopes' = ScopesAfter
    /\ UNCHANGED <<now, reaped, overflow_checks, trip, pc>>

ScopeNext ==
    \/ (\E code \in ExitCodes : sys_exit(code)) /\ Scoped
    \/ sys_yield /\ Scoped
    \/ sys_fork(SmallPids) /\ Scoped
    \/ (\E pid \in WaitArgs : sys_waitpid(pid)) /\ Scoped
    \/ sys_task_info /\ Scoped
    \/ (\E prio \in PrioArgs : sys_set_priority(prio)) /\ Scoped

ScopeSpec == Init /\ [][ScopeNext]_vars

(***************************************************************************)
(* MemSpec: mmap and munmap by one task, on kernels built with and without *)
(* overflow checks, with the history of round trips kept.                  *)
(***************************************************************************)
Starts == {0, 1, PAGE_SIZE, Word - PAGE_SIZE}
Lens == {0, 1, PAGE_SIZE + 1, Word - 1}
Ports == {0, 1, 6, 9}

\* The history after a step.  Phase 1: the step was an mmap that returned
\* 0 (ms0 is the address space before it).  Phase 2: the step after that
\* mmap was a munmap of the same start and len (returning or panicking).
\* Phase 3: the step after that was the same munmap again.
TripAfter ==
    IF last'.op = "mmap" /\ last'.ret = 0
    THEN [phase |-> 1, ms0 |-> memory_set[current]]
    ELSE IF /\ last'.op \in {"munmap", "munmap_panic"} /\ trip.phase \in {1, 2}
            /\ last'.a0 = last.a0 /\ last'.a1 = last.a1
         THEN [trip EXCEPT !.phase = @ + 1]
         ELSE NoTrip

MemInit == InitTasks /\ overflow_checks \in BOOLEAN

Tracked ==
    /\ trip' = TripAfter
    /\ UNCHANGED <<now, reaped, overflow_checks, pc, scopes>>

MemNext ==
    \/ (\E start \in Starts, len \in Lens, port \in Ports :
            sys_mmap(start, len, port)) /\ Tracked
    \/ (\E start \in Starts, len \in Lens : sys_munmap(start, len)) /\ Tracked

MemSpec == MemInit /\ [][MemNext]_vars

(***************************************************************************)
(* Vocabulary of the properties.  A step's syscall is read from last',     *)
(* its caller is last'.caller, the state before it is the unprimed one.    *)
(***************************************************************************)
\* The children of p, as a set.
ChildSet(p) == {children[p][i] : i \in 1 .. Len(children[p])}

\* The children of p that a waitpid argument a names.
Named(p, a) == IF a = -1 THEN ChildSet(p) ELSE {c \in ChildSet(p) : c = a}

\* The places of p's children list that hold a Zombie that a names.
ZombiePlaces(p, a) ==
    {i \in 1 .. Len(children[p]) :
        children[p][i] \in Named(p, a) /\ task_status[children[p][i]] = "Zombie"}

\* Sequence s without its place i.
Without(s, i) == [j \in 1 .. Len(s) - 1 |-> IF j < i THEN s[j] ELSE s[j + 1]]

\* The step is a waitpid that returned / a waitpid that reaped a child.
WaitReturned == last'.op = "waitpid"
WaitReaped == last'.op = "waitpid" /\ last'.ret >= 0

\* Nothing of the task table, the scheduler or user memory changes.
NothingChanges ==
    /\ alive' = alive /\ task_status' = task_status /\ exit_code' = exit_code
    /\ children' = children /\ parent' = parent /\ priority' = priority
    /\ memory_set' = memory_set /\ trap_cx' = trap_cx /\ user_mem' = user_mem
    /\ ready_queue' = ready_queue /\ current' = current
    /\ addtion_time' = addtion_time /\ panicked' = panicked

C2_NoSuchChild ==
    [][ last'.op \in {"waitpid", "waitpid_panic"} =>
          /\ (last'.op = "waitpid" /\ last'.ret = -1)
                <=> Named(last'.caller, last'.a0) = {}
          /\ (last'.op = "waitpid" /\ last'.ret = -1) => NothingChanges
      ]_vars

\* waitpid(-1) of a task without children, and waitpid(pid) of a task whose
\* children do not include pid, have returned -1.
C2_Witness ==
    /\ last.op = "waitpid" /\ last.ret = -1 /\ last.a0 # -1
    /\ ChildSet(last.caller) # {}
    /\ last.a0 \in alive

(***************************************************************************)
(* C3.  waitpid returns -2 exactly when some child is named by pid and no  *)
(* named child is a Zombie; the call changes nothing, and the same call    *)
(* made again at once returns -2 again.                                    *)
(***************************************************************************)
C3_TryAgain ==
    [][ last'.op \in {"waitpid", "waitpid_panic"} =>
          /\ (last'.op = "waitpid" /\ last'.ret = -2)
                <=> (/\ Named(last'.caller, last'.a0) # {}
                     /\ ZombiePlaces(last'.caller, last'.a0) = {})
          /\ (last'.op = "waitpid" /\ last'.ret = -2) => NothingChanges
          /\ (/\ last.op = "waitpid" /\ last.ret = -2
              /\ last'.op = "waitpid"
              /\ last'.caller = last.caller /\ last'.a0 = last.a0)
                => last'.ret = -2
      ]_vars

\* The same waitpid has returned -2 twice in a row, while another child of
\* the caller is a Zombie.
C3_Witness ==
    /\ last.op = "waitpid" /\ last.ret = -2 /\ last.follows = "retry"
    /\ last.a0 # -1
    /\ \E c \in ChildSet(last.caller) : task_status[c] = "Zombie"

(***************************************************************************)
(* C4.  A waitpid that reaps takes the named Zombie that comes first in    *)
(* the caller's children list; the list afterwards is the list before      *)
(* without that place, every other children list is unchanged, and fork    *)
(* puts the new child at the end of the caller's list.                     *)
(***************************************************************************)
C4_FirstZombie ==
    [][ /\ WaitReaped =>
              LET p == last'.caller
                  places == ZombiePlaces(p, last'.a0)
              IN /\ places # {}
                 /\ \E i \in places :
                       /\ \A j \in places : i <= j
                       /\ children[p][i] = last'.ret
                       /\ children'[p] = Without(children[p], i)
                 /\ \A q \in Pids \ {p, last'.ret} : children'[q] = children[q]
        /\ last'.op = "fork" =>
              children'[last'.caller] = children[last'.caller] \o <<last'.ret>>
      ]_vars

\* waitpid(-1) has reaped one of several Zombies of a list of three: two
\* children are left, the first one not a Zombie, the second one a Zombie.
C4_Witness ==
    /\ last.op = "waitpid" /\ last.a0 = -1 /\ last.ret >= 0
    /\ Len(children[last.caller]) = 2
    /\ task_status[children[last.caller][1]] # "Zombie"
    /\ task_status[children[last.caller][2]] = "Zombie"

(***************************************************************************)
(* C5.  The assertion of waitpid never fails: a Zombie is held by exactly  *)
(* one children list and by nothing else (no ready-queue entry, not the    *)
(* processor's current task), so its reference count is one when the       *)
(* parent takes it out of the list.                                        *)
(***************************************************************************)
C5_ZombieHeldOnce ==
    /\ ~panicked
    /\ last.op # "waitpid_panic"
    /\ \A t \in Pids :
          task_status[t] = "Zombie" =>
              /\ t \in alive
              /\ Cardinality({q \in Pids : t \in ChildSet(q)}) = 1
              /\ \A q \in Pids : Occurrences(children[q], t) <= 1
              /\ Occurrences(ready_queue, t) = 0
              /\ current # t
              /\ strong_count(t) = 1

\* A waitpid has reaped a Zombie (the assertion passed) while another
\* Zombie, adopted from an exited child, waits in the caller's list.
C5_Witness ==
    /\ last.op = "waitpid" /\ last.ret >= 0
    /\ last.ret \notin alive
    /\ \E c \in ChildSet(last.caller) : task_status[c] = "Zombie"

(***************************************************************************)
(* C6.  fork creates one task whose pid no live task has (so it differs    *)
(* from the caller's), returns that pid, leaves 0 in the new task's saved  *)
(* x[10] whatever the caller's register held, makes it the last child of   *)
(* the caller and puts it in the ready queue exactly once, as a Ready copy *)
(* of the caller.                                                          *)
(***************************************************************************)
C6_Fork ==
    [][ last'.op = "fork" =>
          LET p == last'.caller
              n == last'.ret
          IN /\ n \notin alive /\ n # p
             /\ alive' = alive \cup {n}
             /\ trap_cx'[n].x10 = 0
             /\ trap_cx'[n].entry = trap_cx[p].entry
             /\ memory_set'[n] = memory_set[p]
             /\ task_status'[n] = "Ready"
             /\ parent'[n] = p
             /\ children'[p] = children[p] \o <<n>>
             /\ Occurrences(ready_queue, n) = 0
             /\ Occurrences(ready_queue', n) = 1
             /\ \A t \in Pids \ {n} :
                   Occurrences(ready_queue', t) = Occurrences(ready_queue, t)
             /\ current' = p /\ task_status'[p] = "Running"
      ]_vars

\* A fork made with 5 in the caller's register has created a third task,
\* which waits in the ready queue with 0 in its x[10].
C6_Witness ==
    /\ last.op = "fork" /\ last.a0 = 5
    /\ Cardinality(alive) >= 3
    /\ trap_cx[last.ret].x10 = 0
    /\ Occurrences(ready_queue, last.ret) = 1

(***************************************************************************)
(* C7.  exec of a path that names no known program returns -1 and changes  *)
(* nothing of the caller (address space, resume context, pid, children,    *)
(* priority, accounting) nor of any other task; exec of a known program    *)
(* returns 0, installs the program's image and keeps the task's pid, its   *)
(* children, parent, priority and accounting.                              *)
(***************************************************************************)
C7_Exec ==
    [][ last'.op = "exec" =>
          LET p == last'.caller
          IN /\ last'.path \notin KnownApps =>
                   /\ last'.ret = -1
                   /\ NothingChanges
             /\ last'.path \in KnownApps =>
                   /\ last'.ret = 0
                   /\ memory_set'[p] = Image(last'.path)
                   /\ trap_cx'[p].entry = last'.path
                   /\ \A t \in Pids \ {p} :
                         /\ memory_set'[t] = memory_set[t]
                         /\ trap_cx'[t] = trap_cx[t]
                   /\ alive' = alive /\ current' = p
                   /\ children' = children /\ parent' = parent
                   /\ priority' = priority
                   /\ addtion_time' = addtion_time
                   /\ task_status' = task_status
                   /\ ready_queue' = ready_queue
      ]_vars

\* An exec of an unknown path has returned -1 to a task that runs "app",
\* has priority 2, a child and a start time after boot.
C7_Witness ==
    /\ last.op = "exec" /\ last.ret = -1 /\ last.path = "nosuch"
    /\ last.caller # INITPROC
    /\ trap_cx[last.caller].entry = "app"
    /\ priority[last.caller] = 2
    /\ children[last.caller] # <<>>
    /\ addtion_time[last.caller] > 0

(***************************************************************************)
(* C8.  spawn of a known program creates one task running that program,    *)
(* makes it the last child of the caller, puts it in the ready queue once  *)
(* and returns its pid, the caller's address space unchanged; spawn of an  *)
(* unknown program returns -1 and creates and changes nothing.             *)
(***************************************************************************)
C8_Spawn ==
    [][ last'.op = "spawn" =>
          LET p == last'.caller
              n == last'.ret
          IN /\ last'.path \notin KnownApps =>
                   /\ n = -1
                   /\ NothingChanges
             /\ last'.path \in KnownApps =>
                   /\ n \in Pids \ alive
                   /\ alive' = alive \cup {n}
                   /\ children'[p] = children[p] \o <<n>>
                   /\ \A t \in Pids \ {p, n} : children'[t] = children[t]
                   /\ Occurrences(ready_queue', n) = 1
                   /\ \A t \in Pids \ {n} :
                         Occurrences(ready_queue', t) = Occurrences(ready_queue, t)
                   /\ task_status'[n] = "Ready"
                   /\ memory_set'[n] = Image(last'.path)
                   /\ \A t \in Pids \ {n} : memory_set'[t] = memory_set[t]
                   /\ trap_cx'[p] = trap_cx[p]
      ]_vars

\* A spawn of "app" by a task that runs "initproc" and already had a child
\* has returned the pid of a new task in the ready queue.
C8_Witness ==
    /\ last.op = "spawn" /\ last.ret >= 0 /\ last.path = "app"
    /\ Len(children[last.caller]) = 2
    /\ children[last.caller][2] = last.ret
    /\ memory_set[last.ret] # memory_set[last.caller]
    /\ Occurrences(ready_queue, last.ret) = 1

(***************************************************************************)
(* Vocabulary of the address-space properties.                             *)
(***************************************************************************)
\* The step is an mmap / a munmap, whether it returned or panicked.
MmapCalled == last'.op \in {"mmap", "mmap_panic"}
MunmapCalled == last'.op \in {"munmap", "munmap_panic"}

\* The pages of [start, start + len) with len rounded up to whole pages,
\* in unbounded arithmetic.
RangePages(start, len) ==
    {vpn \in 0 .. (Word \div 4096) + 1 :
        start <= vpn * 4096 /\ vpn * 4096 < start + len}

\* A port with some bit above bit 2 set, or with its three low bits clear.
BadPort(port) == port >= 8 \/ port % 8 = 0

(***************************************************************************)
(* C9.  mmap returns -1 and leaves the address space as it is whenever     *)
(* port has a bit above bit 2 set, or its three low bits clear, or start   *)
(* is not a multiple of 4096.                                              *)
(***************************************************************************)
C9_Rejected ==
    [][ (MmapCalled /\ (BadPort(last'.a2) \/ last'.a0 % 4096 # 0)) =>
            /\ last'.op = "mmap" /\ last'.ret = -1
            /\ memory_set' = memory_set
            /\ ~panicked'
      ]_vars

(***************************************************************************)
(* C10.  For a page-aligned start, a len and a valid port whose range is   *)
(* unmapped, mmap returns 0; the munmap of the same start and len that     *)
(* follows returns 0 and restores the address space the mmap found; the    *)
(* same munmap made once more returns -1 and changes nothing.              *)
(***************************************************************************)
C10_RoundTrip ==
    [][ /\ (/\ MmapCalled
            /\ last'.a0 % 4096 = 0 /\ ~BadPort(last'.a2)
            /\ RangePages(last'.a0, last'.a1)
                  \cap {m[1] : m \in memory_set[last'.caller]} = {})
              => (last'.op = "mmap" /\ last'.ret = 0)
        /\ trip'.phase = 2 =>
              /\ last'.op = "munmap" /\ last'.ret = 0
              /\ memory_set'[last'.caller] = trip.ms0
        /\ trip'.phase = 3 =>
              /\ last'.op = "munmap" /\ last'.ret = -1
              /\ memory_set' = memory_set
      ]_vars

(***************************************************************************)
(* C11.  The regions of an address space never overlap (no page is mapped  *)
(* twice); an mmap whose rounded range [start, start + len) shares a page  *)
(* with a mapped region returns -1 and adds no page; a munmap whose range  *)
(* is not entirely mapped returns -1 and removes no page.                  *)
(***************************************************************************)
\* len rounded up to whole pages, in unbounded arithmetic.
RoundedUp(len) == ((len + 4095) \div 4096) * 4096

\* The pages that hold a byte of [start, start + RoundedUp(len)).
TouchedPages(start, len) ==
    {vpn \in 0 .. 2 * (Word \div 4096) :
        /\ RoundedUp(len) > 0
        /\ vpn * 4096 < start + RoundedUp(len) /\ (vpn + 1) * 4096 > start}

C11_NoOverlap ==
    [][ /\ \A t \in Pids : \A m1, m2 \in memory_set'[t] :
              m1[1] = m2[1] => m1 = m2
        /\ (MmapCalled /\ TouchedPages(last'.a0, last'.a1)
                \cap MappedPages(memory_set[last'.caller]) # {}) =>
              /\ last'.op = "mmap" /\ last'.ret = -1
              /\ memory_set' = memory_set
        /\ (MunmapCalled /\ ~(TouchedPages(last'.a0, last'.a1)
                \subseteq MappedPages(memory_set[last'.caller]))) =>
              /\ last'.op = "munmap" /\ last'.ret = -1
              /\ memory_set' = memory_set
      ]_vars

(***************************************************************************)
(* C12.  set_priority(prio) with prio < 2 returns -1 and leaves every      *)
(* stored priority as it is; with prio >= 2 it returns prio, the caller's  *)
(* stored priority is prio and no other task's changes.  No other step     *)
(* changes the priority of a task, so the stored priority is the argument  *)
(* of the latest accepted call.                                            *)
(***************************************************************************)
C12_SetPriority ==
    [][ /\ last'.op = "set_priority" =>
              /\ last'.a0 < 2 =>
                    /\ last'.ret = -1
                    /\ priority' = priority
              /\ last'.a0 >= 2 =>
                    /\ last'.ret = last'.a0
                    /\ priority'[last'.caller] = last'.a0
                    /\ \A t \in Pids \ {last'.caller} :
                          priority'[t] = priority[t]
        /\ \A t \in alive :
              priority'[t] # priority[t] =>
                  /\ last'.op = "set_priority" /\ last'.caller = t
                  /\ last'.a0 >= 2 /\ priority'[t] = last'.a0
      ]_vars

\* A set_priority(1) has been rejected, the caller keeping the 10 of its
\* latest accepted call, beside another task that holds 3.
C12_Witness ==
    /\ last.op = "set_priority" /\ last.a0 = 1 /\ last.ret = -1
    /\ priority[last.caller] = 10
    /\ \E t \in alive \ {last.caller} : priority[t] = 3

(***************************************************************************)
(* C13.  In every reachable state the priority of every task is at least   *)
(* 2: of INITPROC, of a task fork or spawn has just created, and of a task *)
(* that has called exec or set_priority.                                   *)
(***************************************************************************)
C13_PriorityAtLeast2 == \A t \in alive : priority[t] \in Nat /\ priority[t] >= 2

\* The third task, created by spawn, has had set_priority(1) rejected after
\* its set_priority(2) was accepted, beside tasks at the initial priority.
C13_Witness ==
    /\ last.op = "set_priority" /\ last.a0 = 1
    /\ last.caller # INITPROC
    /\ trap_cx[last.caller].entry = "app"
    /\ priority[last.caller] = 2
    /\ Cardinality(alive) = 3
    /\ \E t \in alive : priority[t] = DEFAULT_PRIORITY

(***************************************************************************)
(* C14.  exit never returns: after exit(code) the caller is a Zombie with  *)
(* exit_code = code and another task runs.  A Zombie is never Ready or     *)
(* Running again, is neither the processor's current task nor in the ready *)
(* queue (so the panic after exit_current_and_run_next is never reached),  *)
(* makes no syscall, and stops being a Zombie only when the task that is   *)
(* its parent reaps it.                                                    *)
(***************************************************************************)
C14_ExitIsFinal ==
    [][ /\ last'.op = "exit" =>
              /\ task_status'[last'.caller] = "Zombie"
              /\ exit_code'[last'.caller] = last'.a0
              /\ current' # last'.caller
        /\ \A t \in Pids :
              task_status[t] = "Zombie" =>
                  /\ current # t /\ Occurrences(ready_queue, t) = 0
                  /\ last'.caller # t
                  /\ task_status'[t] \in {"Zombie", "None"}
                  /\ task_status'[t] = "Zombie" => exit_code'[t] = exit_code[t]
                  /\ task_status'[t] = "None" =>
                        /\ last'.op = "waitpid" /\ last'.ret = t
                        /\ last'.caller = parent[t]
      ]_vars

\* Two tasks have exited, the first with code 1, its parent after it: both
\* are Zombies in the list of INITPROC, which has made a syscall since.
C14_Witness ==
    /\ last.op = "getpid" /\ last.caller = INITPROC
    /\ Len(children[INITPROC]) = 2
    /\ \A t \in ChildSet(INITPROC) : task_status[t] = "Zombie"
    /\ \E t \in ChildSet(INITPROC) : exit_code[t] = 1

(***************************************************************************)
(* C15.  Under a fair scheduler a parent that repeats waitpid for a child, *)
(* yielding after every -2, gets the child's pid once the child has        *)
(* exited: from any state where the child is a Zombie and the parent is in *)
(* its retry loop, the loop ends with waitpid returning that pid.          *)
(***************************************************************************)
C15_EventuallyReaped ==
    \A c \in Pids :
        (pc.at \in {"wait", "yield"} /\ pc.child = c /\ task_status[c] = "Zombie")
            ~> (pc.at = "done" /\ pc.got = c)

\* The parent was told to try again, yielded, and has now got the pid of
\* the child it waited for, while its other child is still alive.
C15_Witness ==
    /\ pc.at = "done" /\ pc.retried /\ pc.got = pc.child /\ pc.got >= 0
    /\ last.op = "waitpid" /\ last.ret = pc.child
    /\ \E t \in ChildSet(INITPROC) : task_status[t] \in {"Ready", "Running"}

(***************************************************************************)
(* C16.  task_info writes the caller's status and elapsed time and returns *)
(* 0.  For a Zombie the time reported is the elapsed time frozen at the    *)
(* moment of exit, in milliseconds, the same however far the clock moves   *)
(* on; for a task that is not a Zombie it is (now - start_time) / 1000,    *)
(* which never decreases from one moment to a later one.                   *)
(***************************************************************************)
C16_TaskInfoTime ==
    [][ /\ (last'.op = "task_info" /\ last' # last) =>
              /\ last'.ret = 0
              /\ last'.out.status = task_status[last'.caller]
              /\ task_status[last'.caller] # "Zombie"
              /\ last'.out.time = (now - addtion_time[last'.caller]) \div 1000
        /\ \A t \in alive \cap alive' :
              /\ (last'.op = "exit" /\ last'.caller = t /\ current = t) =>
                    task_info_time(t)' = (now - addtion_time[t]) \div 1000
              /\ (task_status[t] = "Zombie" /\ task_status'[t] = "Zombie") =>
                    task_info_time(t)' = task_info_time(t)
              /\ (task_status[t] # "Zombie" /\ task_status'[t] # "Zombie") =>
                    /\ addtion_time[t] <= now
                    /\ task_info_time(t)' >= task_info_time(t)
                    /\ task_info_time(t) = (now - addtion_time[t]) \div 1000
      ]_vars

\* A task that exited after 1400 microseconds is a Zombie whose report is
\* 1 millisecond, while task_info has just given another task a time of
\* 999 milliseconds or more.
C16_Witness ==
    /\ last.op = "task_info" /\ last.out.time >= 999
    /\ last.out.status = "Running"
    /\ \E t \in alive : task_status[t] = "Zombie" /\ task_info_time(t) = 1

(***************************************************************************)
(* C17.  get_time returns 0 and writes a pair (sec, usec) with             *)
(* 0 <= usec < 1000000 and sec * 1000000 + usec equal to the clock at the  *)
(* call; of two calls in succession the second writes a pair that is not   *)
(* lexicographically below the first.                                      *)
(***************************************************************************)
C17_GetTime ==
    [][ (last'.op = "get_time" /\ last' # last) =>
            /\ last'.ret = 0
            /\ last'.out.sec >= 0
            /\ last'.out.usec >= 0 /\ last'.out.usec < 1000000
            /\ last'.out.sec * 1000000 + last'.out.usec = now
            /\ last.op = "get_time" =>
                  \/ last.out.sec < last'.out.sec
                  \/ /\ last.out.sec = last'.out.sec
                     /\ last.out.usec <= last'.out.usec
      ]_vars

\* A get_time made just after a second boundary, right after a get_time
\* made before it: fewer microseconds, one second more.
C17_Witness ==
    /\ last.op = "get_time" /\ last.follows = "carry"
    /\ last.out.sec = 1 /\ last.out.usec < 999600

(***************************************************************************)
(* Vocabulary of the scope properties.                                     *)
(***************************************************************************)
\* The scopes held after the first n events of the sequence tr.
HeldAfter(tr, n) ==
    LET Held[i \in 0 .. n] ==
            IF i = 0 THEN {}
            ELSE IF tr[i][1] = "acq" THEN Held[i - 1] \cup {tr[i][2]}
            ELSE IF tr[i][1] = "rel" THEN Held[i - 1] \ {tr[i][2]}
            ELSE Held[i - 1]
    IN Held[n]

\* c is a child of p before or after the step.
IsChildOf(c, p) ==
    \/ \E i \in 1 .. Len(children[p]) : children[p][i] = c
    \/ \E i \in 1 .. Len(children'[p]) : children'[p][i] = c

\* No scope is acquired on a task whose scope is held; only a held scope is
\* released; a scope acquired while another is held is a child's, acquired
\* under its parent's; no scope is held at a return or a suspension point;
\* the handler ends at one of the two and the kernel has not panicked.
ScopesInOrder ==
    /\ \A i \in 1 .. Len(scopes') :
          LET held == HeldAfter(scopes', i - 1)
              e == scopes'[i]
          IN /\ e[1] = "acq" =>
                    /\ e[2] \notin held
                    /\ \A h \in held : IsChildOf(e[2], h) /\ ~IsChildOf(h, e[2])
                    /\ Cardinality(held) <= 1
             /\ e[1] = "rel" => e[2] \in held
             /\ e[1] \in {"return", "suspend"} => held = {}
    /\ scopes' # <<>> /\ scopes'[Len(scopes')][1] \in {"return", "suspend"}
    /\ ~panicked'

(***************************************************************************)
(* C18 (as amended).  No handler acquires the scope of a task whose scope  *)
(* it holds; a scope acquired while another scope is held is a child's,    *)
(* acquired under its parent's (waitpid), never the parent's under the     *)
(* child's, while fork acquires the scope of the task it has created with  *)
(* no scope held; every scope is released on every return path (the early  *)
(* -1 of waitpid too) and before a suspension point; so no handler hits a  *)
(* double borrow.                                                          *)
(***************************************************************************)
C18_ScopeDiscipline ==
    [][ /\ ScopesInOrder
        /\ last'.op = "fork" =>
              \E i \in 1 .. Len(scopes') :
                  /\ scopes'[i] = Acq(last'.ret)
                  /\ HeldAfter(scopes', i - 1) = {}
        /\ (last'.op = "waitpid" /\ last'.ret = -1) =>
              scopes' = <<Acq(last'.caller), Rel(last'.caller),
                          <<"return", last'.caller>> >>
      ]_vars

\* A waitpid has looked at its first child, not a Zombie, and reaped its
\* second child: the caller's scope around two scopes of the second child
\* and one of the first.
C18_Witness ==
    /\ last.op = "waitpid" /\ last.ret >= 0
    /\ Len(scopes) = 9
    /\ scopes[1] = Acq(last.caller)
    /\ scopes[4] = Acq(last.ret) /\ scopes[6] = Acq(last.ret)
    /\ scopes[2] # scopes[4]

\* C18 as stated: besides the above, the scope of a task other than the
\* caller (a child) is acquired only while the caller's scope is held.
C18_ChildOnlyUnderParent ==
    [][ /\ ScopesInOrder
        /\ \A i \in 1 .. Len(scopes') :
              (scopes'[i][1] = "acq" /\ scopes'[i][2] # last'.caller) =>
                  HeldAfter(scopes', i - 1) = {last'.caller}
      ]_vars

(***************************************************************************)
(* C19.  For every len of the machine word, 0 and the values within a page *)
(* of the maximum included, and every page-aligned start, mmap (with a     *)
(* valid port) and munmap round len up to the least multiple of 4096 that  *)
(* is >= len, compute the end of the range without underflow or overflow,  *)
(* return 0 or -1 and do not panic.                                        *)
(***************************************************************************)
C19_NoOverflow ==
    [][ (/\ (MmapCalled /\ ~BadPort(last'.a2)) \/ MunmapCalled
         /\ last'.a0 % 4096 = 0) =>
            /\ last'.op \in {"mmap", "munmap"}
            /\ last'.ret \in {0, -1}
            /\ ~panicked'
            /\ ~round_len(last'.a1).ovf
            /\ round_len(last'.a1).val = RoundedUp(last'.a1)
            /\ ~end_va(last'.a0, round_len(last'.a1).val).ovf
      ]_vars

(***************************************************************************)
(* C20.  After any sequence of fork, spawn, exec, exit and waitpid calls   *)
(* the kernel runs and the children lists form a tree: every live task but *)
(* INITPROC is in exactly one children list, once, that of a live task;    *)
(* INITPROC is in none; no task is its own ancestor; and a task that has   *)
(* no task control block (it was reaped, or never created) is in no list.  *)
(***************************************************************************)
\* The tasks that hold t in their children list.
Holders(t) == {q \in Pids : Occurrences(children[q], t) > 0}

\* The tasks from which t descends.
AncestorsOf(t) ==
    LET Up[n \in 0 .. MaxPid + 1] ==
            IF n = 0 THEN Holders(t)
            ELSE Up[n - 1] \cup UNION {Holders(x) : x \in Up[n - 1]}
    IN Up[MaxPid + 1]

C20_TaskTree ==
    /\ ~panicked
    /\ \A t \in alive \ {INITPROC} :
          /\ Cardinality(Holders(t)) = 1
          /\ \A q \in Holders(t) : Occurrences(children[q], t) = 1 /\ q \in alive
    /\ Holders(INITPROC) = {}
    /\ \A t \in Pids : t \notin AncestorsOf(t)
    /\ \A t \in Pids \ alive : Holders(t) = {} /\ children[t] = <<>>

\* A child of INITPROC that runs "app" has reaped its own child: the tree
\* had depth two, and the task reaped is gone from every list.
C20_Witness ==
    /\ last.op = "waitpid" /\ last.caller # INITPROC
    /\ last.ret >= 0 /\ last.ret \notin alive
    /\ Holders(last.ret) = {}
    /\ Holders(last.caller) = {INITPROC}
    /\ trap_cx[last.caller].entry = "app"

====
